---- MODULE Spec2Model ----
(***************************************************************************)
(* Model of src/app.py, the dynasty-league expansion draft simulator:      *)
(* simulate_and_draft (protection, per-position loss caps, pool, snake or  *)
(* linear allocation), the AI helpers ai_protect and ai_draft, and the     *)
(* handler of the "Run Simulation & Draft" button.                         *)
(*                                                                         *)
(* Player ids and owner ids are numbers; a Python dict is a function whose *)
(* DOMAIN is its key set and whose iteration (insertion) order is the      *)
(* increasing order of its keys. Expansion team "Expansion Team k" is the  *)
(* number k. A display name is a string.                                   *)
(***************************************************************************)
EXTENDS Integers, Sequences, FiniteSets, Bags, TLC

\* ---------------------------------------------------------------- bounds
NumPlayers == 4
MaxRoster  == 3
MaxProtect == 2
MaxCap     == 1
MaxTeams   == 2
MaxPicks   == 2

Owners    == {1, 2}
PlayerIds == 1..NumPlayers
Positions == {"RB", "WR"}
Names     == {"", "A"}
Formats   == {"Snake", "Linear"}

VARIABLES
  rosters,               \* owner -> sequence of player ids (league_rosters)
  id_to_name,            \* player id -> display name (partial)
  id_to_pos,             \* player id -> position (partial)
  max_protect,
  pos_caps,              \* position -> cap (partial)
  num_teams,
  picks_per_team,
  draft_format,
  protection_overrides,  \* owner -> sequence of player ids (partial)
  use_ai,
  phase,                 \* "ready", "returned", "raised", "stopped", "done"
  error,                 \* name of the exception that ended the call, or ""
  ai_protect_resp,       \* owner -> the AI's answer to ai_protect
  ai_draft_resp,         \* the AI's answer to ai_draft
  final_protected,       \* owner -> protections handed to simulate_and_draft
  protected,             \* owner -> simulate_and_draft's local `protected`
  losses,                \* owner -> simulate_and_draft's local `losses`
  breakdown,             \* owner -> [protected, losses] as display names
  pool_ids,              \* the returned draft pool
  picks_by_team          \* team -> sequence of player ids

inputs  == <<rosters, id_to_name, id_to_pos, max_protect, pos_caps, num_teams,
             picks_per_team, draft_format, protection_overrides, use_ai>>
outputs == <<phase, error, ai_protect_resp, ai_draft_resp, final_protected,
             protected, losses, breakdown, pool_ids, picks_by_team>>
vars    == <<inputs, outputs>>

\* ------------------------------------------------------- Python helpers
Min(a, b) == IF a <= b THEN a ELSE b
Max(a, b) == IF a >= b THEN a ELSE b

\* s[:n]
PySlice(s, n) ==
  IF n >= 0 THEN SubSeq(s, 1, Min(n, Len(s)))
            ELSE SubSeq(s, 1, Max(Len(s) + n, 0))

\* x in s
InSeq(x, s) == \E i \in 1..Len(s) : s[i] = x

\* list(reversed(s))
Reversed(s) == [i \in 1..Len(s) |-> s[Len(s) + 1 - i]]

Range(s) == {s[i] : i \in 1..Len(s)}

RECURSIVE Concat(_, _)
\* the concatenation of f[order[1]], f[order[2]], ...
Concat(order, f) ==
  IF order = <<>> THEN <<>> ELSE f[Head(order)] \o Concat(Tail(order), f)

\* the keys of a dict in iteration order
Keys(d) ==
  LET RECURSIVE Sorted(_)
      Sorted(S) == IF S = {} THEN <<>>
                   ELSE LET m == CHOOSE x \in S : \A y \in S : x <= y
                        IN <<m>> \o Sorted(S \ {m})
  IN Sorted(DOMAIN d)

\* ---------------------------------------------------- simulate_and_draft
\* line 48 without its trailing [:max_protect]
ProtectedUntruncated(owner, overrides) ==
  IF owner \in DOMAIN overrides
    THEN overrides[owner]
    ELSE PySlice(rosters[owner], max_protect)

\* line 48
Protected(owner, overrides) ==
  PySlice(IF owner \in DOMAIN overrides
            THEN overrides[owner]
            ELSE PySlice(rosters[owner], max_protect),
          max_protect)

\* line 49 filtering only the first protected player
CandidatesFirstOnly(owner, overrides) ==
  SelectSeq(rosters[owner],
            LAMBDA pid : ~InSeq(pid, PySlice(Protected(owner, overrides), 1)))

\* line 49
Candidates(owner, overrides) ==
  SelectSeq(rosters[owner], LAMBDA pid : ~InSeq(pid, Protected(owner, overrides)))

\* id_to_pos.get(pid, "UNK")
PosOf(pid) == IF pid \in DOMAIN id_to_pos THEN id_to_pos[pid] ELSE "UNK"

RECURSIVE ByPosKeys(_)
\* the keys of by_pos, in the order setdefault inserted them (lines 53-56)
ByPosKeys(pids) ==
  IF pids = <<>> THEN <<>>
  ELSE LET before == ByPosKeys(SubSeq(pids, 1, Len(pids) - 1))
           pos    == PosOf(pids[Len(pids)])
       IN IF InSeq(pos, before) THEN before ELSE Append(before, pos)

\* by_pos[pos]
ByPos(pids, pos) == SelectSeq(pids, LAMBDA pid : PosOf(pid) = pos)

\* pos_caps.get(pos, 0): a position without a cap loses nobody
CapForDefaultZero(pos, pids) == IF pos \in DOMAIN pos_caps THEN pos_caps[pos] ELSE 0

\* pos_caps.get(pos, len(pids))
CapFor(pos, pids) == IF pos \in DOMAIN pos_caps THEN pos_caps[pos] ELSE Len(pids)

\* lines 52-59
Losses(owner, overrides) ==
  LET cands == Candidates(owner, overrides)
      keys  == ByPosKeys(cands)
      RECURSIVE Extend(_)
      Extend(ks) ==
        IF ks = <<>> THEN <<>>
        ELSE LET pids == ByPos(cands, Head(ks))
             IN PySlice(pids, CapFor(Head(ks), pids)) \o Extend(Tail(ks))
  IN Extend(keys)

\* [id_to_name[p] for p in pids]; only used where every p has a name
NamesOf(pids) == [i \in 1..Len(pids) |-> id_to_name[pids[i]]]

\* lines 61-64 raise KeyError when some protected or lost player has no name
BreakdownRaises(overrides) ==
  \E owner \in Owners :
    \E p \in Range(Protected(owner, overrides)) \cup Range(Losses(owner, overrides)) :
      p \notin DOMAIN id_to_name

\* lines 61-64
Breakdown(overrides) ==
  [owner \in Owners |->
     [protected |-> NamesOf(Protected(owner, overrides)),
      losses    |-> NamesOf(Losses(owner, overrides))]]

\* lines 65, 67-68 truncating to picks_per_team instead of the total
DraftPoolOneRound(overrides) ==
  LET pool == Concat(Keys(rosters), [owner \in Owners |-> Losses(owner, overrides)])
  IN PySlice(pool, picks_per_team)

\* lines 65, 67-68
DraftPool(overrides) ==
  LET pool == Concat(Keys(rosters), [owner \in Owners |-> Losses(owner, overrides)])
  IN PySlice(pool, num_teams * picks_per_team)

\* lines 74-79 with the snake never turning
TeamAtNeverReversed(idx, nteams, format) == (idx % nteams) + 1

\* lines 74-79: the team (1-based) that receives the pick at 0-based idx
TeamAt(idx, nteams, format) ==
  LET teams == [i \in 1..nteams |-> i]
  IN IF format = "Snake"
       THEN LET rnd   == idx \div nteams
                order == IF rnd % 2 = 0 THEN teams ELSE Reversed(teams)
            IN order[(idx % nteams) + 1]
       ELSE teams[(idx % nteams) + 1]

RECURSIVE AllocateFromSecond(_, _, _)
\* lines 71-80 with the loop starting at the second pool entry
AllocateFromSecond(pool, nteams, format) ==
  IF Len(pool) <= 1 THEN [t \in 1..nteams |-> <<>>]
  ELSE LET n    == Len(pool)
           prev == AllocateFromSecond(SubSeq(pool, 1, n - 1), nteams, format)
           team == TeamAt(n - 1, nteams, format)
       IN [prev EXCEPT ![team] = Append(@, pool[n])]

RECURSIVE Allocate(_, _, _)
\* lines 71-80: picks after the loop over enumerate(pool)
Allocate(pool, nteams, format) ==
  IF pool = <<>> THEN [t \in 1..nteams |-> <<>>]
  ELSE LET n    == Len(pool)
           prev == Allocate(SubSeq(pool, 1, n - 1), nteams, format)
           team == TeamAt(n - 1, nteams, format)
       IN [prev EXCEPT ![team] = Append(@, pool[n])]

\* ------------------------------------------------------------ AI helpers
\* name_to_id = {v: k for k, v in id_to_name.items()} (lines 108, 140): the
\* last id inserted under a name is the one kept
NameToId ==
  [n \in {id_to_name[p] : p \in DOMAIN id_to_name} |->
     CHOOSE p \in DOMAIN id_to_name :
       /\ id_to_name[p] = n
       /\ \A q \in DOMAIN id_to_name : id_to_name[q] = n => q <= p]

\* [name_to_id[n] for n in names if n in name_to_id] (line 109), and
\* [name_to_id.get(n) for n in names if name_to_id.get(n)] (line 142): a
\* player id is a non-empty string, so the two tests agree
Resolve(names) ==
  LET known == SelectSeq(names, LAMBDA n : n \in DOMAIN NameToId)
  IN [i \in 1..Len(known) |-> NameToId[known[i]]]

\* ai_protect(roster_ids, ...), lines 85-109, on the answer resp of the service:
\* [raised |-> the exception or "", value |-> the list returned]
AiProtect(roster_ids, resp) ==
  IF \E p \in Range(roster_ids) : p \notin DOMAIN id_to_name \/ p \notin DOMAIN id_to_pos
    THEN [raised |-> "KeyError", value |-> <<>>]                       \* line 86
  ELSE IF resp.kind = "unparsable"
    THEN [raised |-> "", value |-> PySlice(roster_ids, max_protect)]   \* line 106
  ELSE IF resp.kind = "scalar"
    THEN [raised |-> "TypeError", value |-> <<>>]                      \* line 109
  ELSE [raised |-> "", value |-> PySlice(Resolve(resp.names), max_protect)]

\* lines 135-137: the team of the fallback inside ai_draft
FallbackTeamAt(idx, nteams, format) ==
  LET teams == [i \in 1..nteams |-> i]
  IN IF format = "Linear"
       THEN teams[(idx % nteams) + 1]
       ELSE (IF (idx \div nteams) % 2 = 0 THEN teams ELSE Reversed(teams))[(idx % nteams) + 1]

RECURSIVE FallbackMapping(_, _, _)
\* lines 132-138: team -> display names
FallbackMapping(pool, nteams, format) ==
  IF pool = <<>> THEN [t \in 1..nteams |-> <<>>]
  ELSE LET n    == Len(pool)
           prev == FallbackMapping(SubSeq(pool, 1, n - 1), nteams, format)
           team == FallbackTeamAt(n - 1, nteams, format)
       IN [prev EXCEPT ![team] = Append(@, id_to_name[pool[n]])]

\* lines 140-144
NamesToIds(mapping) == [team \in DOMAIN mapping |-> Resolve(mapping[team])]

\* ai_draft(pool_ids, ...), lines 111-144, on the answer resp of the service
AiDraft(pool, nteams, nrounds, format, resp) ==
  IF \E p \in Range(pool) : p \notin DOMAIN id_to_name
    THEN [raised |-> "KeyError", value |-> <<>>]                       \* line 112
  ELSE IF resp.kind = "unparsable"
    THEN [raised |-> "",
          value  |-> NamesToIds(FallbackMapping(PySlice(pool, nteams * nrounds),
                                                nteams, format))]
  ELSE IF resp.kind = "scalar"
    THEN [raised |-> "AttributeError", value |-> <<>>]                 \* line 143
  ELSE [raised |-> "", value |-> NamesToIds(resp.teams)]

\* simulate_and_draft(..., overrides), lines 40-82: what it returns, or the
\* exception it raises (its locals are then lost)
SimulateAndDraft(overrides) ==
  IF BreakdownRaises(overrides)
    THEN [raised |-> "KeyError", protected |-> <<>>, losses |-> <<>>,
          breakdown |-> <<>>, pool |-> <<>>, picks |-> <<>>]
    ELSE [raised    |-> "",
          protected |-> [o \in Owners |-> Protected(o, overrides)],
          losses    |-> [o \in Owners |-> Losses(o, overrides)],
          breakdown |-> Breakdown(overrides),
          pool      |-> DraftPool(overrides),
          picks     |-> Allocate(DraftPool(overrides), num_teams, draft_format)]

\* line 186: the owners whose override has the wrong size
InvalidOwners(overrides) ==
  {o \in DOMAIN overrides : Len(overrides[o]) # max_protect}

\* lines 164-167: the cap table the settings panel builds
UiPosCaps(rb_cap, wr_cap, te_cap, qb_cap, flex_cap) ==
  [pos \in {"RB", "WR", "TE", "QB"} \cup {id_to_pos[p] : p \in DOMAIN id_to_pos} |->
     CASE pos = "RB" -> rb_cap
       [] pos = "WR" -> wr_cap
       [] pos = "TE" -> te_cap
       [] pos = "QB" -> qb_cap
       [] OTHER      -> flex_cap]

\* ------------------------------------------------------------------ Init
NoOutputs ==
  /\ phase = "ready"
  /\ error = ""
  /\ final_protected = <<>>
  /\ protected = <<>>
  /\ losses = <<>>
  /\ breakdown = <<>>
  /\ pool_ids = <<>>
  /\ picks_by_team = <<>>

NoAnswer == [kind |-> "none", names |-> <<>>, teams |-> <<>>]

NoAi ==
  /\ use_ai = FALSE
  /\ ai_protect_resp = [o \in Owners |-> NoAnswer]
  /\ ai_draft_resp = NoAnswer

\* sequences over S without repetition, of length at most n
InjSeqs(S, n) ==
  UNION {{s \in [1..k -> S] : \A i, j \in 1..k : i # j => s[i] # s[j]} : k \in 0..n}

\* all sequences over S of length at most n
SeqsUpTo(S, n) == UNION {[1..k -> S] : k \in 0..n}

\* partial maps from a subset of S into T
PartialMaps(S, T) == UNION {[D -> T] : D \in SUBSET S}

\* A league's rosters are disjoint and hold each player once. Players differ
\* only in their name and position, so the rosters are numbered in roster
\* order: owner 1 holds players 1..a, owner 2 holds a+1..a+b; the players
\* above a+b are on no roster.
LeagueRosters ==
  {<<[i \in 1..a |-> i], [i \in 1..b |-> a + i]>> :
     <<a, b>> \in {l \in (0..MaxRoster) \X (0..MaxRoster) : l[1] + l[2] <= NumPlayers}}

\* rosters that together hold every player
FullRosters == {r \in LeagueRosters : Len(r[1]) + Len(r[2]) = NumPlayers}

DefaultNames == [p \in PlayerIds |-> "A"]
DefaultPos   == [p \in PlayerIds |-> "RB"]

\* The arguments of simulate_and_draft, varied a group at a time; the
\* arguments outside the group keep one value.
InitProtection ==
  /\ rosters \in LeagueRosters
  /\ id_to_name = DefaultNames
  /\ id_to_pos = DefaultPos
  /\ max_protect \in 0..MaxProtect
  /\ pos_caps = <<>>
  /\ num_teams = MaxTeams
  /\ picks_per_team = MaxPicks
  /\ draft_format = "Snake"
  /\ protection_overrides \in
       {<<>>} \cup {o :> s : o \in Owners, s \in InjSeqs(PlayerIds, MaxProtect)}

InitCaps ==
  /\ rosters \in LeagueRosters
  /\ id_to_name = DefaultNames
  /\ id_to_pos \in PartialMaps(PlayerIds, Positions)
  /\ max_protect \in 0..MaxProtect
  /\ pos_caps \in PartialMaps(Positions, 0..MaxCap)
  /\ num_teams = MaxTeams
  /\ picks_per_team = MaxPicks
  /\ draft_format = "Linear"
  /\ protection_overrides = <<>>

InitDraft ==
  /\ rosters \in LeagueRosters
  /\ id_to_name = DefaultNames
  /\ id_to_pos = DefaultPos
  /\ max_protect \in {0, 1}
  /\ pos_caps = <<>>
  /\ num_teams \in 1..MaxTeams
  /\ picks_per_team \in 1..MaxPicks
  /\ draft_format \in Formats
  /\ protection_overrides = <<>>

InitNames ==
  /\ rosters \in LeagueRosters
  /\ id_to_name \in PartialMaps(PlayerIds, Names)
  /\ id_to_pos \in {DefaultPos, <<>>}
  /\ max_protect \in {0, 1}
  /\ pos_caps = <<>>
  /\ num_teams = MaxTeams
  /\ picks_per_team = MaxPicks
  /\ draft_format = "Snake"
  /\ protection_overrides = <<>>

Init ==
  /\ InitProtection \/ InitCaps \/ InitDraft \/ InitNames
  /\ NoAi
  /\ NoOutputs

\* The answers the AI service gives to ai_protect
ProtectAnswers ==
  {[kind |-> "unparsable", names |-> <<>>, teams |-> <<>>],
   [kind |-> "scalar", names |-> <<>>, teams |-> <<>>]}
  \cup {[kind |-> "array", names |-> ns, teams |-> <<>>] :
          ns \in SeqsUpTo({"A", "Z"}, 2)}

\* The answers the AI service gives to ai_draft
DraftAnswers ==
  {[kind |-> "unparsable", names |-> <<>>, teams |-> <<>>],
   [kind |-> "scalar", names |-> <<>>, teams |-> <<>>]}
  \cup {[kind |-> "object", names |-> <<>>, teams |-> m] :
          m \in PartialMaps(1..2, SeqsUpTo({"A", "Z"}, 1))}

\* The page after load_league_data (lines 14-37: one key set for names and
\* positions) and the settings panel (lines 152-181: every owner has an
\* override, chosen among the roster; every position has a cap).
InitManual ==
  /\ rosters \in LeagueRosters
  /\ \E K \in {PlayerIds} \cup {PlayerIds \ {p} : p \in PlayerIds} :
       /\ id_to_name = [p \in K |-> "A"]
       /\ id_to_pos = [p \in K |-> "RB"]
  /\ max_protect \in 0..MaxProtect
  /\ \E c \in 0..MaxCap : pos_caps = UiPosCaps(c, c, c, c, c)
  /\ num_teams = MaxTeams
  /\ picks_per_team = MaxPicks
  /\ draft_format = "Snake"
  /\ \E a \in InjSeqs(Range(rosters[1]), MaxRoster),
        b \in InjSeqs(Range(rosters[2]), MaxRoster) :
       protection_overrides = <<a, b>>
  /\ NoAi

InitAiProtect ==
  /\ rosters \in FullRosters
  /\ id_to_name \in [PlayerIds -> Names]
  /\ id_to_pos = DefaultPos
  /\ max_protect \in 0..MaxProtect
  /\ pos_caps = UiPosCaps(MaxCap, MaxCap, MaxCap, MaxCap, MaxCap)
  /\ num_teams = MaxTeams
  /\ picks_per_team = MaxPicks
  /\ draft_format = "Snake"
  /\ protection_overrides = [o \in Owners |-> PySlice(rosters[o], max_protect)]
  /\ use_ai = TRUE
  /\ ai_protect_resp \in [Owners -> ProtectAnswers]
  /\ ai_draft_resp \in {a \in DraftAnswers : a.kind = "unparsable"}

InitAiDraft ==
  /\ rosters \in FullRosters
  /\ id_to_name \in [PlayerIds -> Names]
  /\ id_to_pos = DefaultPos
  /\ max_protect = 0
  /\ pos_caps = UiPosCaps(MaxRoster, MaxRoster, MaxRoster, MaxRoster, MaxRoster)
  /\ num_teams \in 1..MaxTeams
  /\ picks_per_team \in 1..MaxPicks
  /\ draft_format \in Formats
  /\ protection_overrides = [o \in Owners |-> <<>>]
  /\ use_ai = TRUE
  /\ ai_protect_resp \in [Owners -> {a \in ProtectAnswers : a.kind = "unparsable"}]
  /\ ai_draft_resp \in DraftAnswers

InitApp ==
  /\ InitManual \/ InitAiProtect \/ InitAiDraft
  /\ NoOutputs

\* --------------------------------------------------------------- actions
\* a call of simulate_and_draft with protection_overrides, lines 40-82
Simulate ==
  /\ phase = "ready"
  /\ LET r == SimulateAndDraft(protection_overrides)
     IN /\ phase' = IF r.raised = "" THEN "returned" ELSE "raised"
        /\ error' = r.raised
        /\ protected' = r.protected
        /\ losses' = r.losses
        /\ breakdown' = r.breakdown
        /\ pool_ids' = r.pool
        /\ picks_by_team' = r.picks
  /\ UNCHANGED <<inputs, ai_protect_resp, ai_draft_resp, final_protected>>

\* the Run button without AI, lines 183-193 and 206-210
RunManual ==
  /\ phase = "ready"
  /\ ~use_ai
  /\ IF InvalidOwners(protection_overrides) # {}
       THEN /\ phase' = "stopped"                              \* st.stop()
            /\ UNCHANGED <<error, final_protected, protected, losses, breakdown,
                           pool_ids, picks_by_team>>
       ELSE LET r == SimulateAndDraft(protection_overrides)
            IN /\ final_protected' = protection_overrides
               /\ phase' = IF r.raised = "" THEN "done" ELSE "raised"
               /\ error' = r.raised
               /\ protected' = r.protected
               /\ losses' = r.losses
               /\ breakdown' = r.breakdown
               /\ pool_ids' = r.pool
               /\ picks_by_team' = r.picks
  /\ UNCHANGED <<inputs, ai_protect_resp, ai_draft_resp>>

\* the Run button with AI, lines 183, 194-214
RunAI ==
  /\ phase = "ready"
  /\ use_ai
  /\ LET ans    == [o \in Owners |-> AiProtect(rosters[o], ai_protect_resp[o])]
         failed == {o \in Owners : ans[o].raised # ""}
         fp     == [o \in Owners |-> ans[o].value]
         r      == SimulateAndDraft(fp)
         d      == AiDraft(r.pool, num_teams, picks_per_team, draft_format,
                           ai_draft_resp)
     IN IF failed # {}
          THEN /\ phase' = "raised"
               /\ error' = ans[CHOOSE o \in failed : \A q \in failed : o <= q].raised
               /\ UNCHANGED <<final_protected, protected, losses, breakdown,
                              pool_ids, picks_by_team>>
        ELSE IF r.raised # ""
          THEN /\ phase' = "raised"
               /\ error' = r.raised
               /\ final_protected' = fp
               /\ UNCHANGED <<protected, losses, breakdown, pool_ids, picks_by_team>>
        ELSE /\ final_protected' = fp
             /\ protected' = r.protected
             /\ losses' = r.losses
             /\ breakdown' = r.breakdown
             /\ pool_ids' = r.pool
             /\ phase' = IF d.raised = "" THEN "done" ELSE "raised"
             /\ error' = d.raised
             /\ picks_by_team' = d.value
  /\ UNCHANGED <<inputs, ai_protect_resp, ai_draft_resp>>

Next == Simulate

Spec == Init /\ [][Next]_vars

NextApp == RunManual \/ RunAI

SpecApp == InitApp /\ [][NextApp]_vars

\* ---------------------------------------------------------------- claims
\* the first n entries of s, in order
FirstN(s, n) == [i \in 1..Min(n, Len(s)) |-> s[i]]

\* the index of the first entry of s that satisfies x = s[i]
IndexIn(s, x) == CHOOSE i \in 1..Len(s) : s[i] = x /\ \A j \in 1..(i - 1) : s[j] # x

Returned == phase = "returned"

\* C1: the protected sequence of every owner is the owner's override cut to
\* its first max_protect entries when the owner has one, and otherwise the
\* first max_protect ids of the roster in roster order; so it never holds
\* more than max_protect ids, and max_protect = 0 protects nobody.
C1_ProtectedResolved ==
  Returned =>
    \A o \in Owners :
      /\ protected[o] = IF o \in DOMAIN protection_overrides
                          THEN FirstN(protection_overrides[o], max_protect)
                          ELSE FirstN(rosters[o], max_protect)
      /\ Len(protected[o]) <= max_protect
      /\ max_protect = 0 => protected[o] = <<>>

\* an owner whose override is longer than max_protect, beside an owner
\* without an override whose roster is longer than max_protect
C1_Witness ==
  /\ Returned
  /\ max_protect > 0
  /\ \E o \in DOMAIN protection_overrides :
       /\ Len(protection_overrides[o]) > max_protect
       /\ Len(protected[o]) = max_protect
  /\ \E o \in Owners \ DOMAIN protection_overrides :
       /\ Len(rosters[o]) > max_protect
       /\ Len(protected[o]) = max_protect

\* C2: no protected player of an owner is among that owner's losses, every
\* loss is on the owner's roster, and, the rosters being disjoint, no player
\* protected by its own owner is in the pool or in a team's picks.
C2_ProtectedNotLost ==
  Returned =>
    /\ \A o \in Owners :
         /\ Range(protected[o]) \cap Range(losses[o]) = {}
         /\ Range(losses[o]) \subseteq Range(rosters[o])
    /\ (\A o, q \in Owners : o # q => Range(rosters[o]) \cap Range(rosters[q]) = {})
         => \A o \in Owners :
              \A p \in Range(protected[o]) \cap Range(rosters[o]) :
                /\ p \notin Range(pool_ids)
                /\ \A t \in DOMAIN picks_by_team : p \notin Range(picks_by_team[t])

\* an owner protects two of its players by an override and loses another,
\* who is drafted
C2_Witness ==
  /\ Returned
  /\ \E o \in DOMAIN protection_overrides :
       /\ Cardinality(Range(protected[o]) \cap Range(rosters[o])) >= 2
       /\ \E p \in Range(losses[o]) :
            \E t \in DOMAIN picks_by_team : p \in Range(picks_by_team[t])

\* the non-protected players of the owner in roster order
Unprotected(o) == SelectSeq(rosters[o], LAMBDA p : p \notin Range(protected[o]))

\* the non-protected players of the owner at a position, in roster order
Group(o, pos) == SelectSeq(Unprotected(o), LAMBDA p : PosOf(p) = pos)

\* the roster index at which the position of p is first met among the
\* non-protected players
FirstMet(o, p) == IndexIn(rosters[o], Head(Group(o, PosOf(p))))

\* C3: the losses of an owner are, position group by position group in the
\* order the positions are first met in the roster, the first min(c, g)
\* non-protected players of the group in roster order, c being the
\* position's cap, or g itself when the position has no cap.
C3_LossesByGroup ==
  Returned =>
    \A o \in Owners :
      /\ \A pos \in Positions \cup {"UNK"} :
           LET g == Len(Group(o, pos))
               c == IF pos \in DOMAIN pos_caps THEN pos_caps[pos] ELSE g
           IN SelectSeq(losses[o], LAMBDA p : PosOf(p) = pos)
                = FirstN(Group(o, pos), Min(c, g))
      /\ \A i, j \in 1..Len(losses[o]) :
           i < j => FirstMet(o, losses[o][i]) <= FirstMet(o, losses[o][j])

\* one owner loses a later player before an earlier one (its group was met
\* first) from a group without a cap, and a capped group loses fewer
\* players than it holds
C3_Witness ==
  /\ Returned
  /\ \E o \in Owners :
       \E i, j \in 1..Len(losses[o]) :
         /\ i < j
         /\ IndexIn(rosters[o], losses[o][i]) > IndexIn(rosters[o], losses[o][j])
         /\ PosOf(losses[o][i]) \notin DOMAIN pos_caps
  /\ \E o \in Owners :
       \E pos \in DOMAIN pos_caps :
         /\ pos_caps[pos] < Len(Group(o, pos))
         /\ Len(SelectSeq(losses[o], LAMBDA p : PosOf(p) = pos)) = pos_caps[pos]

\* the sum of the lengths of the sequences f[o], o in S
RECURSIVE SumLen(_, _)
SumLen(f, S) ==
  IF S = {} THEN 0
  ELSE LET o == CHOOSE x \in S : TRUE IN Len(f[o]) + SumLen(f, S \ {o})

\* the losses of all owners, owner after owner in increasing owner order
AllLosses ==
  [i \in 1..SumLen(losses, Owners) |->
     LET o == CHOOSE x \in Owners :
                /\ SumLen(losses, {q \in Owners : q < x}) < i
                /\ i <= SumLen(losses, {q \in Owners : q <= x})
     IN losses[o][i - SumLen(losses, {q \in Owners : q < o})]]

\* C4: the pool is the prefix of the owners' losses, owner after owner, of
\* length min(num_teams * picks_per_team, number of losses); an owner with
\* an empty roster contributes nothing.
C4_PoolIsPrefix ==
  Returned =>
    /\ Len(pool_ids) = Min(num_teams * picks_per_team, SumLen(losses, Owners))
    /\ \A i \in 1..Len(pool_ids) : pool_ids[i] = AllLosses[i]
    /\ \A o \in Owners : rosters[o] = <<>> => losses[o] = <<>>

\* the first owner's roster is empty and the second loses more players than
\* there are picks
C4_Witness ==
  /\ Returned
  /\ rosters[1] = <<>>
  /\ Len(losses[2]) > num_teams * picks_per_team
  /\ Len(pool_ids) = num_teams * picks_per_team
  /\ pool_ids[1] = rosters[2][1]

\* the team (from 0) the claim gives to the pick at idx (from 0)
ClaimedTeam(idx) ==
  IF draft_format = "Linear" \/ (idx \div num_teams) % 2 = 0
    THEN idx % num_teams
    ELSE num_teams - 1 - (idx % num_teams)

\* C5: the player at idx goes to team idx mod num_teams in a Linear draft and
\* in the even rounds of a Snake draft, and to team num_teams - 1 - (idx mod
\* num_teams) in the odd rounds of a Snake draft, as that team's next pick;
\* four players snake-drafted by two teams give [p1, p4] and [p2, p3].
C5_TurnOrder ==
  Returned =>
    /\ \A idx \in 0..(Len(pool_ids) - 1) :
         LET t == ClaimedTeam(idx) + 1
             k == Cardinality({j \in 0..idx : ClaimedTeam(j) + 1 = t})
         IN /\ Len(picks_by_team[t]) >= k
            /\ picks_by_team[t][k] = pool_ids[idx + 1]
    /\ (draft_format = "Snake" /\ num_teams = 2 /\ Len(pool_ids) = 4)
         => picks_by_team = << <<pool_ids[1], pool_ids[4]>>,
                               <<pool_ids[2], pool_ids[3]>> >>

\* a Snake draft reaches its second round, whose first pick goes to the
\* last team
C5_Witness ==
  /\ Returned
  /\ draft_format = "Snake"
  /\ num_teams >= 2
  /\ Len(pool_ids) >= 2 * num_teams
  /\ picks_by_team[num_teams][2] = pool_ids[num_teams + 1]
  /\ picks_by_team[1][2] = pool_ids[2 * num_teams]

\* C6: in either format every pool entry is picked once, by one team, and
\* nothing else is picked: the teams are 1..num_teams, their picks together
\* are as many as the pool, each pool player is at one place of one team,
\* each team's picks are in pool order, and no team has more than
\* picks_per_team picks; an empty pool leaves every team empty.
C6_EachEntryOnce ==
  Returned =>
    /\ DOMAIN picks_by_team = 1..num_teams
    /\ SumLen(picks_by_team, 1..num_teams) = Len(pool_ids)
    /\ \A i \in 1..Len(pool_ids) :
         Cardinality({tk \in (1..num_teams) \X (1..Len(pool_ids)) :
                        /\ tk[2] <= Len(picks_by_team[tk[1]])
                        /\ picks_by_team[tk[1]][tk[2]] = pool_ids[i]}) = 1
    /\ \A t \in 1..num_teams :
         /\ Len(picks_by_team[t]) <= picks_per_team
         /\ \A k \in 1..Len(picks_by_team[t]) : picks_by_team[t][k] \in Range(pool_ids)
         /\ \A k, m \in 1..Len(picks_by_team[t]) :
              k < m => IndexIn(pool_ids, picks_by_team[t][k])
                         < IndexIn(pool_ids, picks_by_team[t][m])
    /\ pool_ids = <<>> => \A t \in 1..num_teams : picks_by_team[t] = <<>>

\* the pool runs out in the second round: one team has all its picks,
\* another has fewer
C6_Witness ==
  /\ Returned
  /\ num_teams >= 2
  /\ Len(pool_ids) > num_teams
  /\ Len(pool_ids) < num_teams * picks_per_team
  /\ \E t \in 1..num_teams : Len(picks_by_team[t]) = picks_per_team
  /\ \E t \in 1..num_teams : Len(picks_by_team[t]) < picks_per_team

\* C7: without AI a run stops at the validation exactly when some owner's
\* override has not max_protect entries; a stopped run produces no breakdown,
\* pool or picks; any other run partitions and allocates with the overrides
\* as submitted.
C7_ManualRunAbortsIffMismatch ==
  (~use_ai /\ phase # "ready") =>
    LET mismatch == \E o \in Owners : Len(protection_overrides[o]) # max_protect
    IN /\ phase = "stopped" <=> mismatch
       /\ phase = "stopped" =>
            /\ breakdown = <<>>
            /\ pool_ids = <<>>
            /\ picks_by_team = <<>>
       /\ ~mismatch =>
            /\ phase = "done"
            /\ final_protected = protection_overrides
            /\ \A o \in Owners : protected[o] = protection_overrides[o]
            /\ DOMAIN breakdown = Owners
            /\ DOMAIN picks_by_team = 1..num_teams

\* C8: simulate_and_draft completes whatever names and positions are
\* missing, and returns a breakdown naming every protected and lost player,
\* a pool and the picks of every team.
C8_MissingMetadataNeverAborts ==
  phase # "ready" =>
    /\ phase = "returned"
    /\ error = ""
    /\ DOMAIN breakdown = Owners
    /\ \A o \in Owners :
         /\ Len(breakdown[o].protected) = Len(protected[o])
         /\ Len(breakdown[o].losses) = Len(losses[o])
    /\ DOMAIN picks_by_team = 1..num_teams

\* C9: ai_protect fails on no answer of the service, and what it returns for
\* an owner is either max_protect ids, each resolved from a name of the
\* answer, or the default, the first max_protect ids of the roster; an
\* unparsable answer gives the default.
C9_AiProtectFallsBack ==
  (use_ai /\ phase # "ready") =>
    /\ DOMAIN final_protected = Owners
    /\ \A o \in Owners :
         LET default == PySlice(rosters[o], max_protect)
             answer  == ai_protect_resp[o]
         IN /\ \/ final_protected[o] = default
               \/ /\ Len(final_protected[o]) = max_protect
                  /\ \A i \in 1..max_protect :
                       \E n \in Range(answer.names) \cap DOMAIN NameToId :
                         NameToId[n] = final_protected[o][i]
            /\ answer.kind = "unparsable" => final_protected[o] = default

\* C10: on an unparsable answer ai_draft returns the assignment that
\* simulate_and_draft's allocation makes of the same pool: the same teams with
\* the same player ids in the same order.
C10_AiDraftFallbackIsAllocation ==
  (use_ai /\ phase # "ready" /\ DOMAIN final_protected = Owners
     /\ ai_draft_resp.kind = "unparsable") =>
    /\ phase = "done"
    /\ picks_by_team = Allocate(pool_ids, num_teams, draft_format)

====
